---- MODULE Spec2Model ----
(***************************************************************************)
(* Model of the friendship and like subsystems of the social media app:    *)
(* the friendships / likes / posts tables with their constraints and row   *)
(* level security policies (supabase/migrations), and the client handlers  *)
(* that issue the statements (app/(tabs) screens).                         *)
(*                                                                         *)
(* A session is one signed-in client; auth.uid() of every statement it     *)
(* issues is SessionUser(s).  Every supabase call is one atomic statement  *)
(* at the store; a handler that awaits two calls is two steps.             *)
(***************************************************************************)
EXTENDS Integers, FiniteSets, Sequences, TLC

\* ---------------------------------------------------------------- bounds
NumProfiles == 3
MaxFriendships == 2
MaxInflight == 2
NumPosts == 1
MaxLikesCount == 2
MaxHist == 3
MaxQueryLen == 2
MaxMessages == 2
MaxClock == 2

Profiles == 1..NumProfiles
\* One session per profile and a second device of profile 1.
NumSessions == NumProfiles + 1
Sessions == 1..NumSessions
Posts == 1..NumPosts

\* useAuth(): the profile a session is signed in as.
SessionUser(s) == ((s - 1) % NumProfiles) + 1

\* posts.user_id: the owner of a post.
PostOwner(p) == ((p - 1) % NumProfiles) + 1

VARIABLES
    friendships,       \* rows of table friendships
    nextFriendshipId,  \* gen_random_uuid(): ids are fresh, never reused
    inflight,          \* per session: the friendships insert it awaits
    last,              \* the most recently completed friendship call
    likes,             \* number of rows of table likes per (user_id, post_id)
    likes_count,       \* posts.likes_count per post
    liked_by_user,     \* per session and post: the flag of the loaded feed
    likeCall,          \* per session: the handleLike call in progress
    serialHistory,     \* no two handleLike calls have overlapped so far
    hist,              \* the first MaxHist handleLike calls, in starting order
    reelsSession,      \* the session whose Reels screen is mounted, 0 if none
    reels,             \* state reels of that screen: per post the item shown
    reelCalls,         \* the handleLike calls of that screen in progress
    reelReports,       \* what completed calls of that screen met and conveyed
    friendsSession,    \* the session whose Friends screen is mounted, 0 if none
    searchQuery,       \* state searchQuery of that screen
    searchResults,     \* state searchResults of that screen
    searchCalls,       \* the searchUsers calls of that screen in progress
    activeTab,         \* state activeTab of that screen
    refreshing,        \* state refreshing of that screen
    loadCalls,         \* the loadFriends / loadRequests calls in progress
    loadFailed,        \* the load that returned last went through its catch
    profileSession,    \* the session whose user profile screen is mounted, 0 if none
    profileId,         \* route parameter id of that screen: the profile shown
    friendshipStatus,  \* state friendshipStatus of that screen ("none" for null)
    friendshipIdState, \* state friendshipId of that screen (0 for null)
    looked,            \* what the lookup of the latest loadUserProfile returned
    messages,          \* rows of table messages
    conversations      \* state conversations of the Chat screen that loaded last

friendVars == <<friendships, nextFriendshipId, inflight, last>>
likeVars == <<likes, likes_count, liked_by_user, likeCall, serialHistory, hist>>
reelVars == <<reelsSession, reels, reelCalls, reelReports>>
searchVars == <<friendsSession, searchQuery, searchResults, searchCalls>>
tabVars == <<activeTab, refreshing, loadCalls, loadFailed>>
profileVars == <<profileSession, profileId, friendshipStatus, friendshipIdState, looked>>
chatVars == <<messages, conversations>>
vars == <<friendships, nextFriendshipId, inflight, last,
          likes, likes_count, liked_by_user, likeCall, serialHistory, hist,
          reelsSession, reels, reelCalls, reelReports,
          friendsSession, searchQuery, searchResults, searchCalls,
          activeTab, refreshing, loadCalls, loadFailed,
          profileSession, profileId, friendshipStatus, friendshipIdState, looked,
          messages, conversations>>

\* ------------------------------------------------- table friendships
\* The rows for the ordered pair (a, b).
RowsOrdered(fs, a, b) == {r \in fs : r.user_id = a /\ r.friend_id = b}

\* The rows for the unordered pair {a, b}, both directions.
RowsBetween(fs, a, b) == RowsOrdered(fs, a, b) \cup RowsOrdered(fs, b, a)

\* UNIQUE(user_id, friend_id)
UniqueViolation(fs, user_id, friend_id) == RowsOrdered(fs, user_id, friend_id) # {}

\* Policy "Users can create friendship requests": WITH CHECK (auth.uid() = user_id)
InsertPolicy(uid, user_id) == uid = user_id

\* Policy "Users can update friendship status":
\* USING (auth.uid() = friend_id OR auth.uid() = user_id)
UpdatePolicy(uid, r) == uid = r.friend_id \/ uid = r.user_id

\* Policy "Users can delete their friendships":
\* USING (auth.uid() = user_id OR auth.uid() = friend_id)
DeletePolicy(uid, r) == uid = r.user_id \/ uid = r.friend_id

\* Policy "Users can view their friendships"
SelectPolicy(uid, r) == uid = r.user_id \/ uid = r.friend_id

\* supabase.from('friendships').insert({user_id, friend_id, status: 'pending'})
\* run as uid: the error the client receives and the table afterwards.
InsertFriendship(fs, nid, uid, user_id, friend_id) ==
    IF ~InsertPolicy(uid, user_id)
    THEN [err |-> "Forbidden", fs |-> fs]
    ELSE IF UniqueViolation(fs, user_id, friend_id)
    THEN [err |-> "Conflict", fs |-> fs]
    ELSE [err |-> "ok",
          fs |-> fs \cup {[id |-> nid, user_id |-> user_id,
                           friend_id |-> friend_id, status |-> "pending"]}]

\* The update by id writing the other status: 'accepted' on a pending row,
\* 'pending' on an accepted row.
UpdateFriendship_Toggle(fs, uid, id) ==
    LET matched == {r \in fs : r.id = id /\ UpdatePolicy(uid, r)}
    IN [err |-> "ok",
        fs |-> (fs \ matched)
               \cup {[r EXCEPT !.status = IF @ = "pending" THEN "accepted"
                                          ELSE "pending"] : r \in matched}]

\* supabase.from('friendships').update({status: 'accepted'}).eq('id', id)
\* run as uid.  Rows the policy hides are not matched; matching no row is
\* not an error.
UpdateFriendship(fs, uid, id) ==
    LET matched == {r \in fs : r.id = id /\ UpdatePolicy(uid, r)}
    IN [err |-> "ok",
        fs |-> (fs \ matched) \cup {[r EXCEPT !.status = "accepted"] : r \in matched}]

\* The delete without .eq('id', id): every row the policy shows to uid.
DeleteFriendship_NoFilter(fs, uid, id) ==
    LET matched == {r \in fs : DeletePolicy(uid, r)}
    IN [err |-> "ok", fs |-> fs \ matched]

\* supabase.from('friendships').delete().eq('id', id) run as uid.
DeleteFriendship(fs, uid, id) ==
    LET matched == {r \in fs : r.id = id /\ DeletePolicy(uid, r)}
    IN [err |-> "ok", fs |-> fs \ matched]

NoRow == [id |-> 0, user_id |-> 0, friend_id |-> 0, status |-> "none"]

\* The both-orderings lookup ending in .maybeSingle(), run as a: the row when
\* exactly one row matches, no data when none matches, and an error with no
\* data when more than one matches (the callers read only data).
FindBetween(fs, a, b) ==
    LET rows == {r \in RowsBetween(fs, a, b) : SelectPolicy(a, r)}
    IN IF Cardinality(rows) = 1 THEN CHOOSE r \in rows : TRUE ELSE NoRow

\* loadFriends run as uid: the profiles of the rows with user_id = uid and
\* status = 'accepted', joined through friend_id.
LoadFriends(fs, uid) ==
    {r.friend_id : r \in {q \in fs : SelectPolicy(uid, q) /\ q.user_id = uid
                                     /\ q.status = "accepted"}}

\* loadStats run as uid on the profile id (Profile: id is the caller itself,
\* UserProfileScreen: id is the profile shown): the exact count of the rows
\* with user_id = id and status = 'accepted' that the caller may select.
LoadStats(fs, uid, id) ==
    Cardinality({q \in fs : SelectPolicy(uid, q) /\ q.user_id = id
                            /\ q.status = "accepted"})

\* loadRequests selecting the rows of either direction, joined to the other
\* party.
LoadRequests_EitherDirection(fs, uid) ==
    {IF r.friend_id = uid THEN r.user_id ELSE r.friend_id :
        r \in {q \in fs : SelectPolicy(uid, q)
                          /\ (q.friend_id = uid \/ q.user_id = uid)
                          /\ q.status = "pending"}}

\* loadRequests run as uid: rows with friend_id = uid and status = 'pending',
\* joined through user_id.
LoadRequests(fs, uid) ==
    {r.user_id : r \in {q \in fs : SelectPolicy(uid, q) /\ q.friend_id = uid
                                   /\ q.status = "pending"}}

\* ------------------------------------------------------- table profiles
\* The characters of the texts: two letters, one of them in both cases, and
\* the blank.
Chars == {"a", "A", "b", " "}

\* The texts the search field can hold.
Queries == UNION {[1..n -> Chars] : n \in 0..MaxQueryLen}

\* profiles.username of profile u (UNIQUE); full_name keeps its default ''.
Username(u) ==
    << IF u = 1 THEN "A" ELSE "a" >> \o [i \in 1..(u - 1) |-> "b"]

\* String.prototype.trim(): the text without its leading and trailing blanks.
Trim(q) ==
    LET kept == {i \in 1..Len(q) : q[i] # " "}
    IN IF kept = {} THEN <<>>
       ELSE LET lo == CHOOSE i \in kept : \A j \in kept : i <= j
                hi == CHOOSE i \in kept : \A j \in kept : j <= i
            IN SubSeq(q, lo, hi)

\* Letter case folded, as ilike compares.
Lower(t) == [i \in 1..Len(t) |-> IF t[i] = "A" THEN "a" ELSE t[i]]

\* column ilike '%q%': q occurs in the text, letter case ignored.
ILikeContains(text, q) ==
    \E i \in 0..(Len(text) - Len(q)) :
        \A j \in 1..Len(q) : Lower(text)[i + j] = Lower(q)[j]

\* .limit(20) of searchUsers.
SearchLimit == 20

\* The rows of the profiles query of searchUsers run as uid for the text q:
\* .neq('id', uid), username or full_name ilike %q%, .limit(20).  The query
\* has no ORDER BY, so any SearchLimit of the matching rows may come back.
SearchProfiles(uid, q) ==
    LET matching == {u \in Profiles : u # uid /\ ILikeContains(Username(u), q)}
    IN {S \in SUBSET matching :
          Cardinality(S) = IF Cardinality(matching) < SearchLimit
                           THEN Cardinality(matching) ELSE SearchLimit}

\* resultsWithStatus of searchUsers for the profiles rows found: each row
\* with friendship_id and status of the .maybeSingle() lookup of both
\* orderings, both undefined ("none", 0) when the lookup yields no data.
ResultsWithStatus(fs, uid, found) ==
    {[id |-> u,
      friendship_id |-> FindBetween(fs, uid, u).id,
      status |-> FindBetween(fs, uid, u).status] : u \in found}

\* ------------------------------------------------------ friends screen
Idle == [op |-> "idle", arg |-> 0, since |-> 0]

NoCall == [session |-> 0, op |-> "none", arg |-> 0, err |-> "none",
           rows |-> {}, since |-> 0]

\* The sessions that await the result of a friendships insert.
Awaiting == {s \in Sessions : inflight[s].op = "createRequest"}

\* sendFriendRequest(friendId) is called: the insert is issued and awaited
\* (the insert branch of handleFriendAction issues the same statement).  The
\* handler does not look up the pair first; friendId is any profile.
\* since remembers the first id not yet handed out, so that the rows with an
\* id >= since are those inserted while this call was in progress.
sendFriendRequest(s, friendId) ==
    /\ inflight[s].op = "idle"
    /\ Cardinality(Awaiting) < MaxInflight
    /\ nextFriendshipId + Cardinality(Awaiting) <= MaxFriendships
    /\ inflight' = [inflight EXCEPT ![s] =
                      [op |-> "createRequest", arg |-> friendId,
                       since |-> nextFriendshipId]]
    /\ UNCHANGED <<friendships, nextFriendshipId, last>>
    /\ UNCHANGED likeVars
    /\ UNCHANGED reelVars
    /\ UNCHANGED searchVars
    /\ UNCHANGED tabVars
    /\ UNCHANGED profileVars
    /\ UNCHANGED chatVars

\* The awaited insert of session s runs at the store and its result reaches
\* the handler (if (error) throw error).  last.rows are the rows the table
\* held for the unordered pair just before the insert.
InsertReturns(s) ==
    /\ inflight[s].op = "createRequest"
    /\ LET uid == SessionUser(s)
           t == inflight[s].arg
           res == InsertFriendship(friendships, nextFriendshipId, uid, uid, t)
       IN /\ friendships' = res.fs
          /\ nextFriendshipId' = IF res.err = "ok" THEN nextFriendshipId + 1
                                 ELSE nextFriendshipId
          /\ last' = [session |-> s, op |-> "createRequest", arg |-> t,
                      err |-> res.err, rows |-> RowsBetween(friendships, uid, t),
                      since |-> inflight[s].since]
    /\ inflight' = [inflight EXCEPT ![s] = Idle]
    /\ UNCHANGED likeVars
    /\ UNCHANGED reelVars
    /\ UNCHANGED searchVars
    /\ UNCHANGED tabVars
    /\ UNCHANGED profileVars
    /\ UNCHANGED chatVars

\* acceptRequest(friendshipId) run by session s.  The statement filters on
\* the id alone, so the policies are its only guard whatever id the client
\* sends.  The loadRequests() that follows rewrites the requests list of the
\* screen and no table.  last.rows is the row with that id just before the
\* update, if any.
acceptRequest(s, friendshipId) ==
    /\ LET res == UpdateFriendship(friendships, SessionUser(s), friendshipId)
       IN /\ friendships' = res.fs
          /\ last' = [session |-> s, op |-> "accept", arg |-> friendshipId,
                      err |-> res.err,
                      rows |-> {r \in friendships : r.id = friendshipId},
                      since |-> 0]
    /\ UNCHANGED <<nextFriendshipId, inflight>>
    /\ UNCHANGED likeVars
    /\ UNCHANGED reelVars
    /\ UNCHANGED searchVars
    /\ UNCHANGED tabVars
    /\ UNCHANGED profileVars
    /\ UNCHANGED chatVars

\* rejectRequest(friendshipId) / removeFriend(friendshipId) run by session s
\* (and the unfriend branch of handleFriendAction): the same delete by id,
\* followed by a reload of the list of the screen.
rejectRequest(s, friendshipId) ==
    /\ LET res == DeleteFriendship(friendships, SessionUser(s), friendshipId)
       IN /\ friendships' = res.fs
          /\ last' = [session |-> s, op |-> "terminate", arg |-> friendshipId,
                      err |-> res.err,
                      rows |-> {r \in friendships : r.id = friendshipId},
                      since |-> 0]
    /\ UNCHANGED <<nextFriendshipId, inflight>>
    /\ UNCHANGED likeVars
    /\ UNCHANGED reelVars
    /\ UNCHANGED searchVars
    /\ UNCHANGED tabVars
    /\ UNCHANGED profileVars
    /\ UNCHANGED chatVars

\* ------------------------------------------------ tables likes, posts
\* The number of likes rows that reference post p.
LikeRows(lk, p) ==
    LET RECURSIVE Sum(_)
        Sum(U) == IF U = {} THEN 0
                  ELSE LET u == CHOOSE x \in U : TRUE
                       IN lk[u, p] + Sum(U \ {u})
    IN Sum(Profiles)

\* Policy "Users can create likes": WITH CHECK (auth.uid() = user_id)
LikeInsertPolicy(uid, user_id) == uid = user_id

\* Policy "Users can delete own likes": USING (auth.uid() = user_id)
LikeDeletePolicy(uid, user_id) == uid = user_id

\* Policy "Users can update own posts": USING (auth.uid() = user_id)
PostUpdatePolicy(uid, p) == uid = PostOwner(p)

\* The insert into likes without UNIQUE(user_id, post_id).
InsertLike_NoUnique(lk, uid, user_id, p) ==
    IF ~LikeInsertPolicy(uid, user_id)
    THEN [err |-> "Forbidden", lk |-> lk]
    ELSE [err |-> "ok", lk |-> [lk EXCEPT ![user_id, p] = @ + 1]]

\* supabase.from('likes').insert({post_id, user_id}) run as uid, with
\* UNIQUE(user_id, post_id).
InsertLike(lk, uid, user_id, p) ==
    IF ~LikeInsertPolicy(uid, user_id)
    THEN [err |-> "Forbidden", lk |-> lk]
    ELSE IF lk[user_id, p] > 0
    THEN [err |-> "Conflict", lk |-> lk]
    ELSE [err |-> "ok", lk |-> [lk EXCEPT ![user_id, p] = @ + 1]]

\* supabase.from('likes').delete().eq('post_id', p).eq('user_id', user_id)
\* run as uid.
DeleteLike(lk, uid, user_id, p) ==
    IF LikeDeletePolicy(uid, user_id)
    THEN [err |-> "ok", lk |-> [lk EXCEPT ![user_id, p] = 0]]
    ELSE [err |-> "ok", lk |-> lk]

\* UPDATE posts SET likes_count = v WHERE id = p run as uid: the table has
\* the one update policy "Users can update own posts", which names no
\* column, so the owner's statement writes the column and any other
\* caller's statement matches no row.
UpdatePost(lc, uid, p, v) ==
    IF PostUpdatePolicy(uid, p) THEN [lc EXCEPT ![p] = v] ELSE lc

\* increment_likes(post_id) called as uid.  The function is not SECURITY
\* DEFINER: its UPDATE runs as the caller, under the posts update policy.
increment_likes(lc, uid, p) ==
    IF PostUpdatePolicy(uid, p) THEN [lc EXCEPT ![p] = @ + 1] ELSE lc

\* decrement_likes with likes_count - 1 in place of GREATEST(likes_count - 1, 0).
decrement_likes_unfloored(lc, uid, p) ==
    IF PostUpdatePolicy(uid, p) THEN [lc EXCEPT ![p] = @ - 1] ELSE lc

\* decrement_likes(post_id) called as uid: GREATEST(likes_count - 1, 0).
decrement_likes(lc, uid, p) ==
    IF PostUpdatePolicy(uid, p)
    THEN [lc EXCEPT ![p] = IF @ - 1 > 0 THEN @ - 1 ELSE 0]
    ELSE lc

\* ------------------------------------------------- home / reels feed
NoLikeCall == [step |-> "idle", post |-> 0, isLiked |-> FALSE, err |-> "none"]

\* hist once more than MaxHist calls have started: nothing is remembered.
Forgotten == << [user |-> 0, post |-> 0, isLiked |-> FALSE,
                 count0 |-> 0, rows0 |-> 0] >>

\* hist holds every handleLike call started so far.
Remembered == hist # Forgotten

\* The sessions with a handleLike call in progress.
Liking == {s \in Sessions : likeCall[s].step # "idle"}

\* The sessions whose call in progress is a like of post p, which ends in
\* increment_likes.
Incrementing(p) ==
    {s \in Liking : likeCall[s].post = p /\ ~likeCall[s].isLiked}

\* loadPosts / loadReels run by session s: liked_by_user is !!likeData of
\* the .maybeSingle() lookup of the session's own likes row.
loadPosts(s) ==
    /\ likeCall[s].step = "idle"
    /\ liked_by_user' = [t \in Sessions, p \in Posts |->
                            IF t = s THEN likes[SessionUser(s), p] = 1
                            ELSE liked_by_user[t, p]]
    /\ liked_by_user' # liked_by_user
    /\ UNCHANGED <<likes, likes_count, likeCall, serialHistory, hist>>
    /\ UNCHANGED friendVars
    /\ UNCHANGED reelVars
    /\ UNCHANGED searchVars
    /\ UNCHANGED tabVars
    /\ UNCHANGED profileVars
    /\ UNCHANGED chatVars

\* The heart of post p is pressed: handleLike(p, item.liked_by_user || false)
\* starts and issues its first statement.
handleLike(s, p) ==
    /\ likeCall[s].step = "idle"
    /\ Cardinality(Liking) < MaxInflight
    /\ \/ liked_by_user[s, p]
       \/ likes_count[p] + Cardinality(Incrementing(p)) < MaxLikesCount
    /\ likeCall' = [likeCall EXCEPT ![s] =
                      [step |-> "ledger", post |-> p,
                       isLiked |-> liked_by_user[s, p], err |-> "none"]]
    /\ serialHistory' = (serialHistory /\ Liking = {})
    /\ hist' = IF Remembered /\ Len(hist) < MaxHist
               THEN Append(hist, [user |-> SessionUser(s), post |-> p,
                                  isLiked |-> liked_by_user[s, p],
                                  count0 |-> likes_count[p],
                                  rows0 |-> likes[SessionUser(s), p]])
               ELSE Forgotten
    /\ UNCHANGED <<likes, likes_count, liked_by_user>>
    /\ UNCHANGED friendVars
    /\ UNCHANGED reelVars
    /\ UNCHANGED searchVars
    /\ UNCHANGED tabVars
    /\ UNCHANGED profileVars
    /\ UNCHANGED chatVars

\* The first awaited statement runs at the store: the delete of the likes
\* row when isLiked, the insert otherwise.  err is the error of the result
\* the await yields; the handler does not read it and goes on to the counter
\* call.
LedgerStep(s) ==
    /\ likeCall[s].step = "ledger"
    /\ LET uid == SessionUser(s)
           c == likeCall[s]
           res == IF c.isLiked THEN DeleteLike(likes, uid, uid, c.post)
                  ELSE InsertLike(likes, uid, uid, c.post)
       IN /\ likes' = res.lk
          /\ likeCall' = [likeCall EXCEPT ![s].step = "counter",
                                          ![s].err = res.err]
    /\ UNCHANGED <<likes_count, liked_by_user, serialHistory, hist>>
    /\ UNCHANGED friendVars
    /\ UNCHANGED reelVars
    /\ UNCHANGED searchVars
    /\ UNCHANGED tabVars
    /\ UNCHANGED profileVars
    /\ UNCHANGED chatVars

\* The second awaited statement runs at the store: rpc decrement_likes when
\* isLiked, rpc increment_likes otherwise; then setPosts flips the flag.
CounterStep(s) ==
    /\ likeCall[s].step = "counter"
    /\ LET uid == SessionUser(s)
           c == likeCall[s]
       IN /\ likes_count' = IF c.isLiked
                            THEN decrement_likes(likes_count, uid, c.post)
                            ELSE increment_likes(likes_count, uid, c.post)
          /\ liked_by_user' = [liked_by_user EXCEPT ![s, c.post] = ~c.isLiked]
    /\ likeCall' = [likeCall EXCEPT ![s] = NoLikeCall]
    /\ UNCHANGED <<likes, serialHistory, hist>>
    /\ UNCHANGED friendVars
    /\ UNCHANGED reelVars
    /\ UNCHANGED searchVars
    /\ UNCHANGED tabVars
    /\ UNCHANGED profileVars
    /\ UNCHANGED chatVars

\* A client sends supabase.from('posts').update({likes_count: v}).eq('id', p)
\* with the session of the post's owner; the store admits it under the
\* posts update policy.  No screen of the app issues the statement.
UpdateOwnPost(s, p, v) ==
    /\ PostUpdatePolicy(SessionUser(s), p)
    /\ v # likes_count[p]
    /\ likes_count' = UpdatePost(likes_count, SessionUser(s), p, v)
    /\ UNCHANGED <<likes, liked_by_user, likeCall, serialHistory, hist>>
    /\ UNCHANGED friendVars
    /\ UNCHANGED reelVars
    /\ UNCHANGED searchVars
    /\ UNCHANGED tabVars
    /\ UNCHANGED profileVars
    /\ UNCHANGED chatVars

\* ------------------------------------------------ friends screen, loads
\* The slots of loadCalls that hold a call in progress.
Loading == {i \in 1..MaxInflight : loadCalls[i] # "idle"}

\* A slot is free for the call that loadData() starts on tab (at most
\* MaxInflight loads are in progress at a time).
CanStartLoad(tab) == tab = "search" \/ Loading # 1..MaxInflight

\* loadData() with activeTab = tab: loadFriends on the friends tab,
\* loadRequests on the requests tab, nothing on the search tab.
StartLoad(lc, tab) ==
    IF tab = "search" \/ {i \in 1..MaxInflight : lc[i] = "idle"} = {}
    THEN lc
    ELSE LET i == CHOOSE j \in 1..MaxInflight :
                     /\ lc[j] = "idle"
                     /\ \A k \in 1..MaxInflight : k < j => lc[k] # "idle"
         IN [lc EXCEPT ![i] = tab]

\* -------------------------------------------- friends screen, search tab
NoSearch == [step |-> "idle", query |-> <<>>]

\* The slots of searchCalls that hold a call in progress.
Searching == {i \in 1..MaxInflight : searchCalls[i].step # "idle"}

\* The Friends screen of session s mounts.
mountFriends(s) ==
    /\ friendsSession = 0
    /\ friendsSession' = s
    /\ loadCalls' = StartLoad(loadCalls, activeTab)
    /\ UNCHANGED <<searchQuery, searchResults, searchCalls>>
    /\ UNCHANGED <<activeTab, refreshing, loadFailed>>
    /\ UNCHANGED profileVars
    /\ UNCHANGED chatVars
    /\ UNCHANGED <<friendVars, likeVars, reelVars>>

\* onChangeText(text) of the search field: setSearchQuery(text), then
\* searchUsers(text), which clears the list for a text that trims to nothing
\* and otherwise issues its queries.
onChangeText(text) ==
    /\ friendsSession # 0
    /\ text # searchQuery
    /\ searchQuery' = text
    /\ IF Trim(text) = <<>>
       THEN /\ searchResults' = {}
            /\ UNCHANGED searchCalls
       ELSE /\ Searching # 1..MaxInflight
            /\ LET i == CHOOSE j \in 1..MaxInflight :
                            /\ j \notin Searching
                            /\ \A k \in 1..MaxInflight : k < j => k \in Searching
               IN searchCalls' = [searchCalls EXCEPT ![i] =
                                     [step |-> "awaiting", query |-> text]]
            /\ UNCHANGED searchResults
    /\ UNCHANGED friendsSession
    /\ UNCHANGED tabVars
    /\ UNCHANGED profileVars
    /\ UNCHANGED chatVars
    /\ UNCHANGED <<friendVars, likeVars, reelVars>>

\* The queries of the searchUsers call in slot i return and the call runs
\* setSearchResults(resultsWithStatus).
searchUsersReturns(i) ==
    /\ searchCalls[i].step = "awaiting"
    /\ \E found \in SearchProfiles(SessionUser(friendsSession),
                                    searchCalls[i].query) :
          searchResults' = ResultsWithStatus(friendships,
                                             SessionUser(friendsSession), found)
    /\ searchCalls' = [searchCalls EXCEPT ![i] = NoSearch]
    /\ UNCHANGED <<friendsSession, searchQuery>>
    /\ UNCHANGED tabVars
    /\ UNCHANGED profileVars
    /\ UNCHANGED chatVars
    /\ UNCHANGED <<friendVars, likeVars, reelVars>>

\* ------------------------------------------- friends screen, pull to refresh
\* setActiveTab(tab) from a tab button; when the tab changes, the effect on
\* [activeTab] runs loadData for the new tab.
setActiveTab(tab) ==
    /\ friendsSession # 0
    /\ tab # activeTab
    /\ CanStartLoad(tab)
    /\ activeTab' = tab
    /\ loadCalls' = StartLoad(loadCalls, tab)
    /\ UNCHANGED <<refreshing, loadFailed>>
    /\ UNCHANGED searchVars
    /\ UNCHANGED profileVars
    /\ UNCHANGED chatVars
    /\ UNCHANGED <<friendVars, likeVars, reelVars>>

\* onRefresh of the RefreshControl of the list, which every tab shows:
\* setRefreshing(true), then loadData().
onRefresh ==
    /\ friendsSession # 0
    /\ ~refreshing
    /\ CanStartLoad(activeTab)
    /\ refreshing' = TRUE
    /\ loadCalls' = StartLoad(loadCalls, activeTab)
    /\ UNCHANGED <<activeTab, loadFailed>>
    /\ UNCHANGED searchVars
    /\ UNCHANGED profileVars
    /\ UNCHANGED chatVars
    /\ UNCHANGED <<friendVars, likeVars, reelVars>>

\* The query of the loadFriends / loadRequests call in slot i returns, with
\* data (ok) or with an error that is thrown and caught; on both paths the
\* finally block runs setLoading(false) and setRefreshing(false).
loadReturns(i, ok) ==
    /\ loadCalls[i] # "idle"
    /\ loadCalls' = [loadCalls EXCEPT ![i] = "idle"]
    /\ loadFailed' = ~ok
    /\ refreshing' = FALSE
    /\ UNCHANGED activeTab
    /\ UNCHANGED searchVars
    /\ UNCHANGED profileVars
    /\ UNCHANGED chatVars
    /\ UNCHANGED <<friendVars, likeVars, reelVars>>

\* -------------------------------------------------- user profile screen
NotLoaded == [id |-> 0, user_id |-> 0, friend_id |-> 0, status |-> "unset"]

screenVars == <<likeVars, reelVars, searchVars, tabVars, chatVars>>

\* loadUserProfile of the user profile screen of session s showing profile
\* id (on mount, and again when the effect on [id, activeTab] fires): the
\* lookup of both orderings runs, and the two states are set only when it
\* returned a row (if (friendshipData) {...}).
loadUserProfile(s, id) ==
    /\ \/ profileSession = 0
       \/ profileSession = s /\ profileId = id
    /\ LET friendshipData == FindBetween(friendships, SessionUser(s), id)
       IN /\ looked' = friendshipData
          /\ IF friendshipData # NoRow
             THEN /\ friendshipStatus' = friendshipData.status
                  /\ friendshipIdState' = friendshipData.id
             ELSE UNCHANGED <<friendshipStatus, friendshipIdState>>
    /\ profileSession' = s
    /\ profileId' = id
    /\ profileVars' # profileVars
    /\ UNCHANGED <<friendVars, screenVars>>

\* handleFriendAction of that screen: delete by the cached id when the
\* cached status is accepted, nothing when it is pending, the insert of a
\* pending row otherwise.
handleFriendAction ==
    /\ profileSession # 0
    /\ friendshipStatus # "pending"
    /\ LET uid == SessionUser(profileSession)
       IN IF friendshipStatus = "accepted"
          THEN /\ friendshipIdState # 0
               /\ friendships' = DeleteFriendship(friendships, uid, friendshipIdState).fs
               /\ friendshipStatus' = "none"
               /\ friendshipIdState' = 0
               /\ UNCHANGED nextFriendshipId
          ELSE /\ nextFriendshipId + Cardinality(Awaiting) <= MaxFriendships
               /\ LET res == InsertFriendship(friendships, nextFriendshipId,
                                              uid, uid, profileId)
                  IN /\ friendships' = res.fs
                     /\ IF res.err = "ok"
                        THEN /\ nextFriendshipId' = nextFriendshipId + 1
                             /\ friendshipStatus' = "pending"
                             /\ friendshipIdState' = nextFriendshipId
                        ELSE UNCHANGED <<nextFriendshipId, friendshipStatus,
                                         friendshipIdState>>
    /\ looked' = NotLoaded
    /\ UNCHANGED <<profileSession, profileId>>
    /\ UNCHANGED <<inflight, last>>
    /\ UNCHANGED screenVars

\* ---------------------------------------------------------- chat screen
NoConversations == [by |-> 0, existing |-> {}, list |-> <<>>]

\* A client of session s inserts a messages row; the policy "Users can send
\* messages" requires sender_id = auth.uid().  created_at is now() or the
\* value the client supplies.  The text of a row is taken to name its sender,
\* receiver and time, so a row is the record of these three.
sendMessage(s, receiver_id, created_at) ==
    /\ Cardinality(messages) < MaxMessages
    /\ LET row == [sender_id |-> SessionUser(s), receiver_id |-> receiver_id,
                   created_at |-> created_at]
       IN /\ row \notin messages
          /\ messages' = messages \cup {row}
    /\ UNCHANGED conversations
    /\ UNCHANGED <<friendVars, likeVars, reelVars, searchVars, tabVars,
                   profileVars>>

\* messages.content of row m.
Content(m) == <<m.sender_id, m.receiver_id, m.created_at>>

\* message.sender_id === user.id ? message.receiver_id : message.sender_id
OtherUserId(m, uid) ==
    IF m.sender_id = uid THEN m.receiver_id ELSE m.sender_id

\* The rows of .or(sender_id.eq.uid, receiver_id.eq.uid) read as uid.
MessagesOf(msgs, uid) ==
    {m \in msgs : m.sender_id = uid \/ m.receiver_id = uid}

\* .order('created_at', {ascending: false}): the orders in which the rows
\* may come back, rows of equal created_at in any order.
OrderedDescending(rows) ==
    {ord \in [1..Cardinality(rows) -> rows] :
        /\ \A i, j \in 1..Cardinality(rows) : ord[i] = ord[j] => i = j
        /\ \A i, j \in 1..Cardinality(rows) :
              i < j => ord[i].created_at >= ord[j].created_at}

\* The same rows ordered ascending.
OrderedAscending(rows) ==
    {ord \in [1..Cardinality(rows) -> rows] :
        /\ \A i, j \in 1..Cardinality(rows) : ord[i] = ord[j] => i = j
        /\ \A i, j \in 1..Cardinality(rows) :
              i < j => ord[i].created_at <= ord[j].created_at}

\* The orders in which messagesData may come back.
MessagesData(rows) == OrderedDescending(rows)

\* The loop of loadConversations over messagesData: the first message met
\* for an other user sets that user's entry, if the profile lookup finds the
\* profile (existing); map is the conversationMap so far, in insertion order.
RECURSIVE ConversationMap(_, _, _, _)
ConversationMap(messagesData, uid, existing, map) ==
    IF messagesData = <<>> THEN map
    ELSE LET message == Head(messagesData)
             otherUserId == OtherUserId(message, uid)
         IN IF \E i \in 1..Len(map) : map[i].id = otherUserId
            THEN ConversationMap(Tail(messagesData), uid, existing, map)
            ELSE IF otherUserId \in existing
            THEN ConversationMap(Tail(messagesData), uid, existing,
                     Append(map, [id |-> otherUserId,
                                  last_message |->
                                     [content |-> Content(message),
                                      created_at |-> message.created_at]]))
            ELSE ConversationMap(Tail(messagesData), uid, existing, map)

\* loadConversations of the Chat screen of session s; the profiles in gone
\* were deleted before their lookup ran.
loadConversations(s, gone) ==
    /\ \E messagesData \in MessagesData(MessagesOf(messages, SessionUser(s))) :
          conversations' =
             [by |-> s, existing |-> Profiles \ gone,
              list |-> ConversationMap(messagesData, SessionUser(s),
                                       Profiles \ gone, <<>>)]
    /\ conversations' # conversations
    /\ UNCHANGED messages
    /\ UNCHANGED <<friendVars, likeVars, reelVars, searchVars, tabVars,
                   profileVars>>

\* --------------------------------------------------------- reels screen
\* One Reels screen, with handleLike calls that may overlap (the heart can be
\* pressed again before the call of the first press has returned).
ReelsUser == SessionUser(reelsSession)

\* The slots of reelCalls that hold a call in progress.
ReelCalling == {i \in 1..MaxInflight : reelCalls[i].step # "idle"}

\* What handleLike conveys to its caller, given the errors of its two awaited
\* results: neither result is read, so the try block runs to its end, setReels
\* flips the item and console.error is not called.
Report(ledgerErr, counterErr) == [flipped |-> TRUE, logged |-> FALSE]

\* The updater of setReels / setPosts in handleLike applied to the item of
\* post p.
FlipItem(rs, p, isLiked) ==
    [rs EXCEPT ![p] = [liked_by_user |-> ~isLiked,
                       likes_count |-> @.likes_count
                                       + (IF isLiked THEN -1 ELSE 1)]]

\* The Reels screen of session s mounts (useEffect) and loadReels sets the
\* items: likes_count from the posts row, liked_by_user from the lookup of
\* the session's own likes row.
loadReels(s) ==
    /\ reelsSession \in {0, s}
    /\ ReelCalling = {}
    /\ reelsSession' = s
    /\ reels' = [p \in Posts |->
                   [liked_by_user |-> likes[SessionUser(s), p] = 1,
                    likes_count |-> likes_count[p]]]
    /\ <<reelsSession', reels'>> # <<reelsSession, reels>>
    /\ UNCHANGED <<reelCalls, reelReports>>
    /\ UNCHANGED <<friendVars, likeVars>>
    /\ UNCHANGED searchVars
    /\ UNCHANGED tabVars
    /\ UNCHANGED profileVars
    /\ UNCHANGED chatVars

\* The heart of reel p is pressed: handleLike(p, item.liked_by_user || false)
\* starts in the first free slot.
Reels_handleLike(p) ==
    /\ reelsSession # 0
    /\ ReelCalling # 1..MaxInflight
    /\ LET i == CHOOSE j \in 1..MaxInflight :
                    /\ j \notin ReelCalling
                    /\ \A k \in 1..MaxInflight : k < j => k \in ReelCalling
           isLiked == reels[p].liked_by_user
           same == Cardinality({j \in ReelCalling :
                                  /\ reelCalls[j].post = p
                                  /\ reelCalls[j].isLiked = isLiked})
       IN /\ IF isLiked
             THEN reels[p].likes_count - same > -MaxLikesCount
             ELSE /\ reels[p].likes_count + same < MaxLikesCount
                  /\ likes_count[p] + same < MaxLikesCount
          /\ reelCalls' = [reelCalls EXCEPT ![i] =
                             [step |-> "ledger", post |-> p,
                              isLiked |-> isLiked, err |-> "none"]]
    /\ UNCHANGED <<reelsSession, reels, reelReports>>
    /\ UNCHANGED <<friendVars, likeVars>>
    /\ UNCHANGED searchVars
    /\ UNCHANGED tabVars
    /\ UNCHANGED profileVars
    /\ UNCHANGED chatVars

\* The first awaited statement of the call in slot i runs at the store.
ReelsLedgerStep(i) ==
    /\ reelCalls[i].step = "ledger"
    /\ LET c == reelCalls[i]
           res == IF c.isLiked
                  THEN DeleteLike(likes, ReelsUser, ReelsUser, c.post)
                  ELSE InsertLike(likes, ReelsUser, ReelsUser, c.post)
       IN /\ likes' = res.lk
          /\ reelCalls' = [reelCalls EXCEPT ![i].step = "counter",
                                            ![i].err = res.err]
    /\ UNCHANGED <<reelsSession, reels, reelReports>>
    /\ UNCHANGED <<likes_count, liked_by_user, likeCall, serialHistory, hist>>
    /\ UNCHANGED friendVars
    /\ UNCHANGED searchVars
    /\ UNCHANGED tabVars
    /\ UNCHANGED profileVars
    /\ UNCHANGED chatVars

\* The rpc of the call in slot i runs at the store, then setReels flips the
\* item.
ReelsCounterStep(i) ==
    /\ reelCalls[i].step = "counter"
    /\ LET c == reelCalls[i]
       IN /\ likes_count' = IF c.isLiked
                            THEN decrement_likes(likes_count, ReelsUser, c.post)
                            ELSE increment_likes(likes_count, ReelsUser, c.post)
          /\ reels' = FlipItem(reels, c.post, c.isLiked)
          /\ reelReports' = reelReports
                \cup {[ledger |-> c.err, counter |-> "ok",
                       report |-> Report(c.err, "ok")]}
    /\ reelCalls' = [reelCalls EXCEPT ![i] = NoLikeCall]
    /\ UNCHANGED reelsSession
    /\ UNCHANGED <<likes, liked_by_user, likeCall, serialHistory, hist>>
    /\ UNCHANGED friendVars
    /\ UNCHANGED searchVars
    /\ UNCHANGED tabVars
    /\ UNCHANGED profileVars
    /\ UNCHANGED chatVars

\* The rpc of the call in slot i does not reach the store or is refused by
\* it: the awaited result carries an error and the posts row is unchanged;
\* handleLike goes on to setReels.
ReelsCounterFails(i) ==
    /\ reelCalls[i].step = "counter"
    /\ LET c == reelCalls[i]
       IN /\ reels' = FlipItem(reels, c.post, c.isLiked)
          /\ reelReports' = reelReports
                \cup {[ledger |-> c.err, counter |-> "Unavailable",
                       report |-> Report(c.err, "Unavailable")]}
    /\ reelCalls' = [reelCalls EXCEPT ![i] = NoLikeCall]
    /\ UNCHANGED reelsSession
    /\ UNCHANGED <<friendVars, likeVars>>
    /\ UNCHANGED searchVars
    /\ UNCHANGED tabVars
    /\ UNCHANGED profileVars
    /\ UNCHANGED chatVars

\* ---------------------------------------------------------------- init
Init ==
    /\ friendships = {}
    /\ nextFriendshipId = 1
    /\ inflight = [s \in Sessions |-> Idle]
    /\ last = NoCall
    /\ likes = [u \in Profiles, p \in Posts |-> 0]
    /\ likes_count = [p \in Posts |-> 0]
    /\ liked_by_user = [s \in Sessions, p \in Posts |-> FALSE]
    /\ likeCall = [s \in Sessions |-> NoLikeCall]
    /\ serialHistory = TRUE
    /\ hist = <<>>
    /\ reelsSession = 0
    /\ reels = [p \in Posts |-> [liked_by_user |-> FALSE, likes_count |-> 0]]
    /\ reelCalls = [i \in 1..MaxInflight |-> NoLikeCall]
    /\ reelReports = {}
    /\ friendsSession = 0
    /\ searchQuery = <<>>
    /\ searchResults = {}
    /\ searchCalls = [i \in 1..MaxInflight |-> NoSearch]
    /\ activeTab = "friends"
    /\ refreshing = FALSE
    /\ loadCalls = [i \in 1..MaxInflight |-> "idle"]
    /\ loadFailed = FALSE
    /\ profileSession = 0
    /\ profileId = 0
    /\ friendshipStatus = "none"
    /\ friendshipIdState = 0
    /\ looked = NotLoaded
    /\ messages = {}
    /\ conversations = NoConversations

NextFriend ==
    \/ \E s \in Sessions, t \in Profiles : sendFriendRequest(s, t)
    \/ \E s \in Sessions : InsertReturns(s)
    \/ \E s \in Sessions, id \in 1..MaxFriendships : acceptRequest(s, id)
    \/ \E s \in Sessions, id \in 1..MaxFriendships : rejectRequest(s, id)

NextLike ==
    \/ \E s \in Sessions : loadPosts(s)
    \/ \E s \in Sessions, p \in Posts : handleLike(s, p)
    \/ \E s \in Sessions : LedgerStep(s)
    \/ \E s \in Sessions : CounterStep(s)

NextStore ==
    \/ NextLike
    \/ \E s \in Sessions, p \in Posts, v \in 0..MaxLikesCount :
          UpdateOwnPost(s, p, v)

NextReels ==
    \/ \E s \in Sessions : loadReels(s)
    \/ \E p \in Posts : Reels_handleLike(p)
    \/ \E i \in 1..MaxInflight : ReelsLedgerStep(i)
    \/ \E i \in 1..MaxInflight : ReelsCounterStep(i)

NextReelsFault ==
    \/ NextReels
    \/ \E i \in 1..MaxInflight : ReelsCounterFails(i)

NextSearch ==
    \/ \E s \in Sessions : mountFriends(s)
    \/ \E text \in Queries : onChangeText(text)
    \/ \E i \in 1..MaxInflight : searchUsersReturns(i)

NextRefresh ==
    \/ \E s \in Sessions : mountFriends(s)
    \/ \E tab \in {"friends", "requests", "search"} : setActiveTab(tab)
    \/ onRefresh
    \/ \E i \in 1..MaxInflight, ok \in BOOLEAN : loadReturns(i, ok)

NextProfile ==
    \/ NextFriend
    \/ \E s \in Sessions, id \in Profiles : loadUserProfile(s, id)
    \/ handleFriendAction

NextChat ==
    \/ \E s \in Sessions, r \in Profiles, t \in 1..MaxClock :
          sendMessage(s, r, t)
    \/ \E s \in Sessions, gone \in {{}} \cup {{u} : u \in Profiles} :
          loadConversations(s, gone)

Next ==
    \/ NextStore \/ NextReelsFault \/ NextSearch \/ NextRefresh
    \/ NextProfile \/ NextChat

SpecFriend == Init /\ [][NextFriend]_vars
SpecLike == Init /\ [][NextLike]_vars
SpecStore == Init /\ [][NextStore]_vars
SpecSearch == Init /\ [][NextSearch]_vars
SpecRefresh ==
    /\ Init
    /\ [][NextRefresh]_vars
    /\ \A i \in 1..MaxInflight : WF_vars(\E ok \in BOOLEAN : loadReturns(i, ok))
SpecProfile == Init /\ [][NextProfile]_vars
SpecChat == Init /\ [][NextChat]_vars
SpecReels == Init /\ [][NextReels]_vars
SpecReelsFault == Init /\ [][NextReelsFault]_vars
Spec == Init /\ [][Next]_vars

\* ----------------------------------------------------------- properties
\* The profile that issued the most recently completed friendship call.
Actor == SessionUser(last.session)

Parties(r) == {r.user_id, r.friend_id}

\* C1: for all profiles A # B there is at most one friendships row for the
\* unordered pair {A, B}, counting both directions.
C1_OneRowPerUnorderedPair ==
    \A a \in Profiles, b \in Profiles :
        a # b => Cardinality(RowsBetween(friendships, a, b)) <= 1

\* C2: when two createRequest calls for the same unordered pair overlap and
\* one of them has inserted its row, the other fails with Conflict and
\* inserts nothing: never are both inserts accepted.
C2_ConcurrentCreateOneWins ==
    (/\ last.op = "createRequest"
     /\ Actor # last.arg
     /\ \E r \in last.rows : r.id >= last.since)
    => (/\ last.err = "Conflict"
        /\ RowsBetween(friendships, Actor, last.arg) = last.rows)

\* C3: once createRequest(A, B) has succeeded and its row still exists, a
\* later createRequest(B, A) fails with Conflict and inserts no row.
C3_ReverseRequestConflicts ==
    (/\ last.op = "createRequest"
     /\ Actor # last.arg
     /\ \E r \in last.rows : /\ r.id < last.since
                              /\ r.user_id = last.arg
                              /\ r.friend_id = Actor)
    => (/\ last.err = "Conflict"
        /\ RowsBetween(friendships, Actor, last.arg) = last.rows)

\* C4: for all profiles A, B joined by an accepted row, loadFriends run as A
\* lists B if and only if loadFriends run as B lists A.
C4_FriendsSymmetric ==
    \A a \in Profiles, b \in Profiles :
        (a # b /\ \E r \in RowsBetween(friendships, a, b) : r.status = "accepted")
        => (b \in LoadFriends(friendships, a) <=> a \in LoadFriends(friendships, b))

\* C5: accept(id, X) by an identity X that is not the stored target
\* (friend_id) of row id fails with Forbidden and leaves the row as it was.
C5_AcceptOnlyByTarget ==
    (last.op = "accept")
    => \A r \in last.rows :
          Actor # r.friend_id => (last.err = "Forbidden" /\ r \in friendships)

\* C6: accept on a row that is not pending (a second accept by the target)
\* fails with InvalidState, and accept on an absent row fails with NotFound.
C6_AcceptAtMostOnce ==
    (last.op = "accept")
    => /\ last.rows = {} => last.err = "NotFound"
       /\ \A r \in last.rows :
             (Actor = r.friend_id /\ r.status # "pending")
             => last.err = "InvalidState"

\* C7: terminate(id, X) by either party of row id, pending or accepted,
\* succeeds, and right afterwards findBetween on the two parties returns none.
C7_TerminateLeavesNone ==
    (last.op = "terminate")
    => \A r \in last.rows :
          (Actor \in Parties(r) /\ r.user_id # r.friend_id)
          => /\ last.err = "ok"
             /\ r \notin friendships
             /\ FindBetween(friendships, r.user_id, r.friend_id) = NoRow
             /\ FindBetween(friendships, r.friend_id, r.user_id) = NoRow

\* C8: terminate(id, X) by an identity X that is no party of row id fails
\* with Forbidden and leaves the row in place; terminate on an absent id
\* fails with NotFound.
C8_TerminateByStranger ==
    (last.op = "terminate")
    => /\ last.rows = {} => last.err = "NotFound"
       /\ \A r \in last.rows :
             Actor \notin Parties(r)
             => (last.err = "Forbidden" /\ r \in friendships)

\* C9: under a serial history of handleLike calls, after each call
\* likes_count of every post equals the number of likes rows that reference
\* the post.
C9_CountEqualsRows ==
    (serialHistory /\ Liking = {})
    => \A p \in Posts : likes_count[p] = LikeRows(likes, p)

\* C10: a second handleLike call in sequence by the same profile on the same
\* post with isLiked = false (its insert meets the likes row of the first
\* call) leaves exactly one likes row and does not raise likes_count again,
\* so that the two calls raise it by exactly 1 in total.
C10_DoubleLikeCountsOnce ==
    [][\A s \in Sessions :
          (/\ serialHistory
           /\ likeCall[s].step = "counter"
           /\ ~likeCall[s].isLiked
           /\ likeCall[s].err = "Conflict"
           /\ likeCall'[s].step = "idle")
          => (/\ likes'[SessionUser(s), likeCall[s].post] = 1
              /\ likes_count' = likes_count)]_vars

\* C11: N overlapping handleLike calls with isLiked = false by N distinct
\* profiles on the same post, none of which has a likes row, all insert their
\* row and end with likes_count = initial + N, under every interleaving of
\* their steps.
C11_ConcurrentLikesAllCounted ==
    (/\ Remembered
     /\ Len(hist) >= 2
     /\ Liking = {}
     /\ ~serialHistory
     /\ \A i \in 1..Len(hist) :
           /\ ~hist[i].isLiked
           /\ hist[i].rows0 = 0
           /\ hist[i].post = hist[1].post
           /\ \A j \in 1..Len(hist) : hist[j].user = hist[i].user => j = i)
    => (/\ \A i \in 1..Len(hist) : likes[hist[i].user, hist[i].post] = 1
        /\ likes_count[hist[1].post] = hist[1].count0 + Len(hist))

\* C12: likes_count of a post is never below 0, whatever the sequence and
\* interleaving of handleLike calls, unlikes without a likes row included.
C12_CountNeverNegative ==
    \A p \in Posts : likes_count[p] >= 0

\* An unlike by the owner that started with likes_count = 0 and no likes row
\* has run decrement_likes.
C12_Witness ==
    /\ serialHistory
    /\ Remembered
    /\ Liking = {}
    /\ Len(hist) > 0
    /\ LET c == hist[Len(hist)]
       IN /\ c.isLiked
          /\ c.rows0 = 0
          /\ c.count0 = 0
          /\ c.user = PostOwner(c.post)
          /\ likes_count[c.post] = 0

\* C13: a handleLike call with isLiked = false whose insert stored a new
\* likes row raises likes_count of the post by exactly 1, for a caller that
\* owns the post and for a caller that does not.
C13_LikeRaisesCountByOne ==
    [][\A s \in Sessions :
          (/\ likeCall[s].step = "counter"
           /\ ~likeCall[s].isLiked
           /\ likeCall[s].err = "ok"
           /\ likeCall'[s].step = "idle")
          => likes_count'[likeCall[s].post] = likes_count[likeCall[s].post] + 1]_vars

\* C14: with no other call in between, a like that stores a new likes row
\* followed by an unlike of the same profile on the same post leaves the
\* likes row and likes_count as they were before the like; and like, unlike,
\* like by one profile from likes_count = 0 and no likes row ends with one
\* likes row and likes_count = 1.
C14_LikeUnlikeRoundTrip ==
    (/\ serialHistory
     /\ Remembered
     /\ Liking = {}
     /\ Len(hist) >= 2
     /\ \A i \in 1..Len(hist) : /\ hist[i].user = hist[1].user
                                /\ hist[i].post = hist[1].post)
    => LET n == Len(hist)
           u == hist[1].user
           p == hist[1].post
       IN /\ (/\ ~hist[n - 1].isLiked
               /\ hist[n - 1].rows0 = 0
               /\ hist[n].isLiked)
              => (/\ likes[u, p] = hist[n - 1].rows0
                  /\ likes_count[p] = hist[n - 1].count0)
          /\ (/\ n = 3
               /\ ~hist[1].isLiked
               /\ hist[2].isLiked
               /\ ~hist[3].isLiked)
              => (/\ likes[u, p] = 1
                  /\ likes_count[p] = 1)

\* C15: a request whose target is the requester itself fails with
\* InvalidArgument and inserts nothing: the table never holds a row with
\* user_id = friend_id.
C15_NoSelfFriendship ==
    /\ \A r \in friendships : r.user_id # r.friend_id
    /\ (last.op = "createRequest" /\ last.arg = Actor)
          => last.err = "InvalidArgument"

\* C16: in every reachable state there is at most one likes row per
\* (profile, post), under any interleaving of handleLike calls of any
\* sessions.
C16_OneLikePerProfileAndPost ==
    \A u \in Profiles, p \in Posts : likes[u, p] <= 1

\* Two overlapping likes of one profile from two sessions: the insert of the
\* second has met the row of the first.
C16_Witness ==
    /\ ~serialHistory
    /\ \E s \in Sessions :
          /\ likeCall[s].step = "counter"
          /\ ~likeCall[s].isLiked
          /\ likeCall[s].err = "Conflict"
          /\ likes[SessionUser(s), likeCall[s].post] = 1

\* C17: likes_count of a post changes only in the counter call of a like or
\* unlike (increment_likes / decrement_likes); no other statement the store
\* admits from a client changes it, the owner's update of its own posts row
\* included.
C17_CountChangesOnlyByCounter ==
    [][\A p \in Posts :
          likes_count'[p] # likes_count[p]
          => \E s \in Sessions : /\ likeCall[s].step = "counter"
                                 /\ likeCall[s].post = p
                                 /\ likeCall'[s].step = "idle"]_vars

C19_FriendsEitherDirection ==
    (\A r \in friendships : r.user_id # r.friend_id)
    => \A a \in Profiles :
        LET accepted == {b \in Profiles :
                           \E r \in RowsBetween(friendships, a, b) :
                               r.status = "accepted"}
        IN /\ LoadFriends(friendships, a) = accepted
           /\ \A uid \in Profiles :
                 LoadStats(friendships, uid, a) = Cardinality(accepted)

\* C20: the lookup of searchUsers and loadUserProfile for the profiles a and
\* b returns a row stored for the pair whenever one is stored in either
\* direction, and returns none only when no row is stored for the pair.
C20_FindBetweenFindsRow ==
    \A a \in Profiles, b \in Profiles :
        LET found == FindBetween(friendships, a, b)
        IN /\ found # NoRow => found \in RowsBetween(friendships, a, b)
           /\ found = NoRow => RowsBetween(friendships, a, b) = {}

C30_AcceptTerminateFrame ==
    [][/\ last'.op = "accept"
          => /\ \A r \in friendships :
                   IF r.id = last'.arg
                   THEN \E n \in friendships' : /\ n.id = r.id
                                                /\ n.user_id = r.user_id
                                                /\ n.friend_id = r.friend_id
                   ELSE r \in friendships'
             /\ \A n \in friendships' : \E r \in friendships : r.id = n.id
       /\ last'.op = "terminate"
          => /\ friendships' \subseteq friendships
             /\ \A r \in friendships : r.id # last'.arg => r \in friendships']_vars

\* A party of two rows has deleted one of them and the other is still stored.
C30_Witness ==
    /\ last.op = "terminate"
    /\ last.rows # {}
    /\ last.rows \cap friendships = {}
    /\ \E r \in friendships : DeletePolicy(Actor, r)

\* C23: an error the store returns in a step of a handler reaches the
\* handler's caller and ends the call: after a failed first statement of
\* handleLike (the insert or the delete on likes) the counter call is not run.
C23_FailedLedgerStopsCall ==
    [][\A s \in Sessions :
          (/\ likeCall[s].step = "ledger"
           /\ likeCall'[s].step # "ledger"
           /\ likeCall'[s].err # "ok")
          => likeCall'[s].step = "idle"]_vars

\* C28: in a feed, likes_count shown for an item is never negative after any
\* sequence of handleLike calls, and once the calls of the screen have
\* completed, liked_by_user of the item equals whether the store holds a likes
\* row of the current user for it, no other session having touched it.
C28_ShownCountAndFlag ==
    reelsSession # 0
    => /\ \A p \in Posts : reels[p].likes_count >= 0
       /\ ReelCalling = {}
          => \A p \in Posts :
                reels[p].liked_by_user = (likes[ReelsUser, p] = 1)

\* C24: a handleLike call whose counter call failed after its likes
\* statement succeeded conveys to its caller something different from what a
\* call whose likes statement failed conveys.
C24_CounterFailureDistinct ==
    \A x \in reelReports, y \in reelReports :
        (/\ x.ledger = "ok"
         /\ x.counter # "ok"
         /\ y.ledger # "ok")
        => x.report # y.report

\* C21: the result of searchUsers never holds the calling profile, holds at
\* most 20 rows, and the status of every row is the status the table holds
\* between the caller and that profile at the time of the lookup (none when
\* it holds no row for the pair).
C21_SearchAnnotated ==
    \A a \in Profiles, q \in Queries :
        Trim(q) # <<>>
        => \A found \in SearchProfiles(a, q) :
              LET res == ResultsWithStatus(friendships, a, found)
              IN /\ Cardinality(res) <= 20
                 /\ \A x \in res :
                       /\ x.id # a
                       /\ x.status \in
                            IF RowsBetween(friendships, a, x.id) = {}
                            THEN {"none"}
                            ELSE {r.status : r \in RowsBetween(friendships, a, x.id)}

\* C25: with a searchUsers call started for every change of the search text
\* and the responses of overlapping calls returning in any order, once no
\* call is in progress searchResults are the results of the text typed last,
\* and the empty list when that text is empty.
C25_LatestQueryShown ==
    (friendsSession # 0 /\ Searching = {})
    => IF Trim(searchQuery) = <<>>
       THEN searchResults = {}
       ELSE \E found \in SearchProfiles(SessionUser(friendsSession), searchQuery) :
               searchResults = ResultsWithStatus(friendships,
                                                 SessionUser(friendsSession), found)

\* C26: on each of the three tabs, after onRefresh has set refreshing to
\* true, refreshing eventually returns to false, whether the query of the
\* load returns data or an error.
C26_RefreshingEnds ==
    refreshing ~> ~refreshing

\* C27: after every completed run of loadUserProfile the cached
\* friendshipStatus and friendshipId are what the lookup of that run
\* returned, (null, null) when it returned no row (stated for a screen that
\* shows a profile other than the viewer's own).
C27_CacheEqualsLookup ==
    (looked # NotLoaded /\ profileId # SessionUser(profileSession))
    => /\ friendshipStatus = looked.status
       /\ friendshipIdState = looked.id

====
